---- MODULE Spec2Model ----
(***************************************************************************)
(* The scoped-resource helpers and the identity resolution of mkosi/util.py *)
(* (scopedenv, chdir, umask, flock, INVOKING_USER) as state machines over   *)
(* the process state they act on.  The helpers do not interact, so each has *)
(* its own specification over its own variables; the variables of the other *)
(* helpers stay at their initial value.                                     *)
(***************************************************************************)
EXTENDS Integers, Sequences, FiniteSets, TLC

VARIABLES
    environ,    \* the mapping bound to os.environ (the data of that object)
    cenv,       \* the environment block of the process (putenv/unsetenv, exec)
    tempdir,    \* tempfile.tempdir, the cached default temporary directory
    envStack,   \* the scopedenv scopes that are open, innermost last
    envLast     \* what the last scopedenv step did (observation only)

VARIABLES
    cwd,        \* the working directory of the process
    cdStack,    \* the chdir scopes that are open, innermost last
    cdLast      \* what the last chdir step did (observation only)

VARIABLES
    curmask,    \* the file-creation mask of the process
    umStack,    \* the umask scopes that are open, innermost last
    umLast      \* what the last umask step did (observation only)

VARIABLES
    fl,         \* per execution context: where it is in flock, its fd and path
    openFds,    \* the descriptors that are open
    lock,       \* per file: the descriptor holding the exclusive lock, if any
    flCalls     \* how many times flock has been called

VARIABLES
    idEnv,      \* SUDO_UID, PKEXEC_UID and SUDO_GID at process start
    proc,       \* the real uid and gid of the process
    cls,        \* the class INVOKING_USER: uid, gid, invoked_as_root
    clsLast     \* what the last call on the class returned (observation only)

VARIABLES
    usr,        \* the lru_cache of name() and of home(), and the lookups made
    account,    \* whether the user database has an entry for the resolved uid
    usrLast     \* what the last call of name(), home() or init() did

envVars == <<environ, cenv, tempdir, envStack, envLast>>
cdVars == <<cwd, cdStack, cdLast>>
umVars == <<curmask, umStack, umLast>>
flVars == <<fl, openFds, lock, flCalls>>
idVars == <<idEnv, proc, cls, clsLast>>
usrVars == <<usr, account, usrLast>>

vars == <<envVars, cdVars, umVars, flVars, idVars, usrVars>>

nonEnvVars == <<cdVars, umVars, flVars, idVars, usrVars>>
nonCdVars == <<envVars, umVars, flVars, idVars, usrVars>>
nonUmVars == <<envVars, cdVars, flVars, idVars, usrVars>>
nonFlVars == <<envVars, cdVars, umVars, idVars, usrVars>>
nonIdVars == <<envVars, cdVars, umVars, flVars, usrVars>>
nonUsrVars == <<envVars, cdVars, umVars, flVars, idVars>>

\* The helpers a specification is not about: nothing has been called.
EnvIdle ==
    /\ environ = <<>>
    /\ cenv = <<>>
    /\ tempdir = "None"
    /\ envStack = <<>>
    /\ envLast = [op |-> "none"]

CdIdle ==
    /\ cwd = "/"
    /\ cdStack = <<>>
    /\ cdLast = [op |-> "none"]

UmIdle ==
    /\ curmask = 18
    /\ umStack = <<>>
    /\ umLast = [op |-> "none"]

FlIdle ==
    /\ fl = <<>>
    /\ openFds = {}
    /\ lock = <<>>
    /\ flCalls = 0

IdIdle ==
    /\ idEnv = <<>>
    /\ proc = <<>>
    /\ cls = [status |-> "unloaded"]
    /\ clsLast = [op |-> "none"]

UsrIdle ==
    /\ usr = <<>>
    /\ account = FALSE
    /\ usrLast = [op |-> "none"]

None == "None"

\* How the body of a scope ends.
Exits == {"return", "raise"}

(***************************************************************************)
(* scopedenv                                                               *)
(***************************************************************************)
MaxDepth == 2
MaxOverrides == 2

Keys == {"TMPDIR", "FOO"}
Vals == {"e", "o"}
NonStr == "<int>"

\* An environment table: a mapping from some of the keys to strings.
Envs == UNION {[D -> Vals] : D \in SUBSET Keys}

\* The mappings a caller passes: keys in iteration order, values of any type.
RECURSIVE DistinctKeys(_)
DistinctKeys(O) ==
    \/ O = <<>>
    \/ /\ \A i \in 2..Len(O) : O[i][1] # O[1][1]
       /\ DistinctKeys(Tail(O))

Overrides ==
    {O \in UNION {[1..n -> Keys \X (Vals \cup {NonStr})] : n \in 0..MaxOverrides} :
        DistinctKeys(O)}

\* _Environ.__setitem__: putenv and the store into the mapping's data.
SetItem(m, k, v) == [x \in (DOMAIN m) \cup {k} |-> IF x = k THEN v ELSE m[x]]

\* os.environ |= env is _Environ.update(env): one __setitem__ per key, in order;
\* encodevalue raises TypeError at the first value that is not a string, and the
\* items set before it stay set.
RECURSIVE MergeFrom(_, _, _)
MergeFrom(m, O, i) ==
    IF i > Len(O) THEN [env |-> m, ok |-> TRUE]
    ELSE IF O[i][2] = NonStr THEN [env |-> m, ok |-> FALSE]
    ELSE MergeFrom(SetItem(m, O[i][1], O[i][2]), O, i + 1)

Merge(m, O) == MergeFrom(m, O, 1)

\* os.environ = old: the name os.environ is bound to the copy taken on entry.
\* The process environment block is not touched: no putenv, no unsetenv.
RestoreEnviron(frame) == frame.old

\* tempfile.gettempdir(): the cached value, else computed from TMPDIR.
DefaultTmp == "/tmp"
ComputeTempdir(m) == IF "TMPDIR" \in DOMAIN m THEN m["TMPDIR"] ELSE DefaultTmp

EnvInit ==
    /\ environ \in Envs
    /\ cenv = environ
    /\ tempdir = None
    /\ envStack = <<>>
    /\ envLast = [op |-> "none"]

\* Entry of a scopedenv(O) scope, up to the yield (lines 146-154).
ScopedenvEnter(O) ==
    /\ Len(envStack) < MaxDepth
    /\ LET r == Merge(environ, O)
           c == Merge(cenv, O)
           pre == [environ |-> environ, cenv |-> cenv]
       IN /\ environ' = r.env
          /\ cenv' = c.env
          /\ IF r.ok
             THEN /\ tempdir' = None
                  /\ envStack' = Append(envStack, [old |-> environ, pre |-> pre])
                  /\ envLast' = [op |-> "enter", pre |-> pre, env |-> O]
             ELSE /\ UNCHANGED <<tempdir, envStack>>
                  /\ envLast' = [op |-> "TypeError", pre |-> pre, env |-> O]
    /\ UNCHANGED nonEnvVars

\* The body of the innermost scope asks for the default temporary directory.
BodyGettempdir ==
    /\ envStack # <<>>
    /\ tempdir' = IF tempdir = None THEN ComputeTempdir(environ) ELSE tempdir
    /\ envLast' = [op |-> "body"]
    /\ UNCHANGED <<environ, cenv, envStack>>
    /\ UNCHANGED nonEnvVars

\* Exit of the innermost scope: the finally block (lines 155-157), reached
\* when the body returns and when it raises.
ScopedenvExit(how) ==
    /\ envStack # <<>>
    /\ LET frame == envStack[Len(envStack)]
       IN /\ environ' = RestoreEnviron(frame)
          /\ tempdir' = None
          /\ envStack' = SubSeq(envStack, 1, Len(envStack) - 1)
          /\ envLast' = [op |-> "exit", how |-> how, pre |-> frame.pre]
    /\ UNCHANGED cenv
    /\ UNCHANGED nonEnvVars

EnvNext ==
    \/ \E O \in Overrides : ScopedenvEnter(O)
    \/ BodyGettempdir
    \/ \E how \in Exits : ScopedenvExit(how)

EnvInitAll == EnvInit /\ CdIdle /\ UmIdle /\ FlIdle /\ IdIdle /\ UsrIdle

SpecEnv == EnvInitAll /\ [][EnvNext]_vars

\* C1: after a scopedenv scope exits, by return or by raise, the full process
\* environment (the os.environ mapping and the environment block of the
\* process) equals the environment before the call.
C1_EnvRestoredOnExit ==
    envLast.op = "exit" =>
        /\ environ = envLast.pre.environ
        /\ cenv = envLast.pre.cenv

\* C10: when the merge of scopedenv fails, the os.environ mapping is what it
\* was before the call.
C10_EnvUnchangedOnFailedMerge ==
    envLast.op = "TypeError" => environ = envLast.pre.environ

(***************************************************************************)
(* chdir                                                                   *)
(***************************************************************************)
ExistingDirs == {"/", "/a", "/b"}
MissingDirs == {"/gone"}

\* The values chdir accepts (PathString): a Path or a str, absolute or ".".
Targets == [type : {"Path", "str"}, text : ExistingDirs \cup MissingDirs \cup {"."}]

\* The directory a target denotes when the working directory is cur.
Resolve(directory, cur) == IF directory.text = "." THEN cur ELSE directory.text

\* old == directory, old being Path.cwd(): a Path equals only a Path, with the
\* same parts; Path.cwd() is absolute, so Path(".") is not equal to it.
PathEq(old, directory) == directory.type = "Path" /\ directory.text = old

\* The directory after the exit of a scope: the early return of the guard
\* branch does nothing, the finally block calls os.chdir(old).
ChdirFinally_NoRestoreOnRaise(frame, cur, how) ==
    IF frame.noop \/ how = "raise" THEN cur ELSE frame.old

ChdirFinally(frame, cur, how) == IF frame.noop THEN cur ELSE frame.old

CdInit ==
    /\ cwd \in ExistingDirs
    /\ cdStack = <<>>
    /\ cdLast = [op |-> "none"]

\* Entry of a chdir(directory) scope, up to the yield (lines 108-116).  When
\* os.chdir(directory) raises, the finally block runs and the error reaches
\* the caller: no scope is open.
ChdirEnter(directory) ==
    /\ Len(cdStack) < MaxDepth
    /\ LET old == cwd
           obs == [pre |-> cwd, target |-> directory]
       IN IF PathEq(old, directory)
          THEN /\ UNCHANGED cwd
               /\ cdStack' = Append(cdStack,
                    [old |-> old, noop |-> TRUE, sys |-> 0] @@ obs)
               /\ cdLast' = [op |-> "enter", sys |-> 0] @@ obs
          ELSE IF Resolve(directory, cwd) \in ExistingDirs
          THEN /\ cwd' = Resolve(directory, cwd)
               /\ cdStack' = Append(cdStack,
                    [old |-> old, noop |-> FALSE, sys |-> 1] @@ obs)
               /\ cdLast' = [op |-> "enter", sys |-> 1] @@ obs
          ELSE /\ cwd' = old
               /\ UNCHANGED cdStack
               /\ cdLast' = [op |-> "FileNotFoundError", sys |-> 2] @@ obs
    /\ UNCHANGED nonCdVars

\* The body of the innermost scope changes the working directory itself.
BodyChdir(d) ==
    /\ cdStack # <<>>
    /\ d # cwd
    /\ cwd' = d
    /\ cdLast' = [op |-> "body"]
    /\ UNCHANGED cdStack
    /\ UNCHANGED nonCdVars

\* Exit of the innermost scope (lines 111-112 or 117-118), reached when the
\* body returns and when it raises.
ChdirExit(how) ==
    /\ cdStack # <<>>
    /\ LET frame == cdStack[Len(cdStack)]
       IN /\ cwd' = ChdirFinally(frame, cwd, how)
          /\ cdStack' = SubSeq(cdStack, 1, Len(cdStack) - 1)
          /\ cdLast' = [op |-> "exit", how |-> how, pre |-> frame.pre,
                        target |-> frame.target, noop |-> frame.noop,
                        bodyCwd |-> cwd,
                        sys |-> IF frame.noop THEN frame.sys ELSE frame.sys + 1]
    /\ UNCHANGED nonCdVars

CdNext ==
    \/ \E directory \in Targets : ChdirEnter(directory)
    \/ \E d \in ExistingDirs : BodyChdir(d)
    \/ \E how \in Exits : ChdirExit(how)

CdInitAll == CdInit /\ EnvIdle /\ UmIdle /\ FlIdle /\ IdIdle /\ UsrIdle

SpecCd == CdInitAll /\ [][CdNext]_vars

\* C2 (as stated): after a chdir(D) scope exits, by return or by raise, the
\* working directory is the one that was current before the call, for every
\* enterable D, D equal to the current directory included, and every body.
C2_CwdRestoredForEveryBody ==
    cdLast.op = "exit" => cwd = cdLast.pre

\* C2 (amended): after a chdir(D) scope exits, by return or by raise, the
\* working directory is the one that was current before the call unless D is a
\* path object equal to the current directory; in that case the exit changes
\* nothing and the working directory is the one the body left.
C2_CwdRestoredUnlessGuard ==
    cdLast.op = "exit" =>
        /\ ~PathEq(cdLast.pre, cdLast.target) => cwd = cdLast.pre
        /\ PathEq(cdLast.pre, cdLast.target) => cwd = cdLast.bodyCwd

C2_Witness ==
    /\ cdLast.op = "exit"
    /\ cdLast.how = "raise"
    /\ ~PathEq(cdLast.pre, cdLast.target)
    /\ Resolve(cdLast.target, cdLast.pre) # cdLast.pre
    /\ cdLast.bodyCwd \notin {cdLast.pre, Resolve(cdLast.target, cdLast.pre)}
    /\ cwd = cdLast.pre

\* C8: a chdir scope whose target, a path object or a string, denotes the
\* current working directory performs no directory-change syscall, neither
\* on entry nor on exit.
C8_NoSyscallForCurrentDirectory ==
    (cdLast.op \in {"enter", "exit"} /\ Resolve(cdLast.target, cdLast.pre) = cdLast.pre)
        => cdLast.sys = 0

(***************************************************************************)
(* umask                                                                   *)
(***************************************************************************)
\* The masks callers pass and the process starts with.
Masks == {0, 18, 63, 511}

\* os.umask(mask): the kernel keeps the permission bits, mask & 0o777.
OsUmask(mask) == mask % (8 * 8 * 8)

\* The mask the finally block sets: os.umask(old).
UmaskFinally_KeepsMask(frame) == OsUmask(frame.mask)

UmaskFinally(frame) == OsUmask(frame.old)

UmInit ==
    /\ curmask \in Masks
    /\ umStack = <<>>
    /\ umLast = [op |-> "none"]

\* Entry of a umask(mask) scope, up to the yield (lines 181-183).
UmaskEnter(mask) ==
    /\ Len(umStack) < MaxDepth
    /\ curmask' = OsUmask(mask)
    /\ umStack' = Append(umStack,
            [old |-> curmask, mask |-> mask, pre |-> curmask, touched |-> FALSE])
    /\ umLast' = [op |-> "enter", mask |-> mask, pre |-> curmask]
    /\ UNCHANGED nonUmVars

\* The body of the innermost scope sets the mask itself.
BodyUmask(mask) ==
    /\ umStack # <<>>
    /\ mask # curmask
    /\ curmask' = OsUmask(mask)
    /\ umStack' = [umStack EXCEPT ![Len(umStack)].touched = TRUE]
    /\ umLast' = [op |-> "body"]
    /\ UNCHANGED nonUmVars

\* Exit of the innermost scope: the finally block (lines 184-185), reached
\* when the body returns and when it raises.
UmaskExit(how) ==
    /\ umStack # <<>>
    /\ LET frame == umStack[Len(umStack)]
       IN /\ curmask' = UmaskFinally(frame)
          /\ umStack' = SubSeq(umStack, 1, Len(umStack) - 1)
          /\ umLast' = [op |-> "exit", how |-> how, mask |-> frame.mask,
                        pre |-> frame.pre, depth |-> Len(umStack)]
    /\ UNCHANGED nonUmVars

UmNext ==
    \/ \E mask \in Masks : UmaskEnter(mask)
    \/ \E mask \in Masks : BodyUmask(mask)
    \/ \E how \in Exits : UmaskExit(how)

UmInitAll == UmInit /\ EnvIdle /\ CdIdle /\ FlIdle /\ IdIdle /\ UsrIdle

SpecUm == UmInitAll /\ [][UmNext]_vars

\* C7: inside a umask(M) scope the mask is M as long as the body has not set
\* it itself, and after the scope exits, by return or by raise, the mask is
\* the one before the call; nested scopes restore in reverse order of entry.
C7_UmaskScoped ==
    /\ (umStack # <<>> /\ ~umStack[Len(umStack)].touched)
            => curmask = umStack[Len(umStack)].mask
    /\ umLast.op = "exit" => curmask = umLast.pre
    /\ \A i \in 1..(Len(umStack) - 1) :
            ~umStack[i].touched => umStack[i + 1].pre = umStack[i].mask

C7_Witness ==
    /\ umLast.op = "exit"
    /\ umLast.how = "raise"
    /\ umLast.depth = 2
    /\ umLast.mask # umLast.pre
    /\ umStack[1].mask # umStack[1].pre
    /\ curmask = umStack[1].mask

(***************************************************************************)
(* flock                                                                   *)
(***************************************************************************)
NumCtx == 2
MaxScopes == 3

Ctx == 1..NumCtx
ExistingFiles == {"f", "g"}
MissingFiles == {"nofile"}
NoFd == -1

\* os.open returns the lowest descriptor that is not open (0-2 are taken).
LowestFree(fds) == CHOOSE fd \in 3..(3 + NumCtx) :
    fd \notin fds /\ \A o \in 3..(fd - 1) : o \in fds

\* fcntl.flock(fd, LOCK_EX) returns once no other open file holds the lock.
LockFree_Shared(path) == TRUE

LockFree(path) == lock[path] = NoFd

\* os.close(fd): the descriptor is gone, and with it the lock it held.
OsClose(fds, fd) == fds \ {fd}
ReleaseOnClose(l, fd) == [p \in DOMAIN l |-> IF l[p] = fd THEN NoFd ELSE l[p]]

\* The descriptors after fcntl.flock raised: the call is inside the try, so
\* the finally block closes fd.
AfterLockError_NoClose(fds, fd) == fds

AfterLockError(fds, fd) == OsClose(fds, fd)

\* A context that is not inside flock: fd and path are gone with the frame;
\* res is how its last call ended.
Idle(res) == [pc |-> "idle", fd |-> NoFd, path |-> None, res |-> res,
              waited |-> FALSE]

FlInit ==
    /\ fl = [c \in Ctx |-> Idle("none")]
    /\ openFds = {}
    /\ lock = [p \in ExistingFiles |-> NoFd]
    /\ flCalls = 0

\* Line 135: os.open(path, O_CLOEXEC|O_RDONLY).  On a path that does not exist
\* it raises before the try, and flock(path) has failed.
FlockOpen(c, path) ==
    /\ fl[c].pc = "idle"
    /\ flCalls < MaxScopes
    /\ flCalls' = flCalls + 1
    /\ IF path \in MissingFiles
       THEN /\ fl' = [fl EXCEPT ![c] = Idle("FileNotFoundError")]
            /\ UNCHANGED openFds
       ELSE LET fd == LowestFree(openFds)
            IN /\ fl' = [fl EXCEPT ![c] = [pc |-> "locking", fd |-> fd, path |-> path,
                            res |-> "none", waited |-> lock[path] # NoFd]]
               /\ openFds' = openFds \cup {fd}
    /\ UNCHANGED lock
    /\ UNCHANGED nonFlVars

\* Lines 137-139: the fcntl call (a read of the descriptor flags), then
\* fcntl.flock(fd, LOCK_EX), which blocks while the lock is held, then the yield.
FlockAcquire(c) ==
    /\ fl[c].pc = "locking"
    /\ LockFree(fl[c].path)
    /\ lock' = [lock EXCEPT ![fl[c].path] = fl[c].fd]
    /\ fl' = [fl EXCEPT ![c].pc = "body"]
    /\ UNCHANGED <<openFds, flCalls>>
    /\ UNCHANGED nonFlVars

\* Lines 138, 140-141: fcntl.flock raises (no lock memory, a signal handler that
\* raises); the finally block runs and the error reaches the caller.
FlockAcquireFails(c) ==
    /\ fl[c].pc = "locking"
    /\ openFds' = AfterLockError(openFds, fl[c].fd)
    /\ fl' = [fl EXCEPT ![c] = Idle("OSError")]
    /\ UNCHANGED <<lock, flCalls>>
    /\ UNCHANGED nonFlVars

\* Lines 140-141: the finally block, reached when the body returns and when
\* it raises.
FlockExit(c, how) ==
    /\ fl[c].pc = "body"
    /\ openFds' = OsClose(openFds, fl[c].fd)
    /\ lock' = ReleaseOnClose(lock, fl[c].fd)
    /\ fl' = [fl EXCEPT ![c] = Idle(how)]
    /\ UNCHANGED flCalls
    /\ UNCHANGED nonFlVars

FlNext ==
    \/ \E c \in Ctx, path \in ExistingFiles \cup MissingFiles : FlockOpen(c, path)
    \/ \E c \in Ctx : FlockAcquire(c)
    \/ \E c \in Ctx : FlockAcquireFails(c)
    \/ \E c \in Ctx, how \in Exits : FlockExit(c, how)

FlInitAll == FlInit /\ EnvIdle /\ CdIdle /\ UmIdle /\ IdIdle /\ UsrIdle

SpecFl == FlInitAll /\ [][FlNext]_vars

\* The kernel wakes a context blocked in flock once the lock is free, and a
\* body comes to its end.
FairSpecFl ==
    /\ FlInitAll
    /\ [][FlNext]_vars
    /\ \A c \in Ctx : WF_vars(FlockAcquire(c))
    /\ \A c \in Ctx : WF_vars(\E how \in Exits : FlockExit(c, how))

Waiting(c) == fl[c].pc = "locking"

\* C3: two contexts are never both in the body of a flock scope on the same
\* path, and a context waiting for the lock gets past the wait once the scopes
\* before it have exited.
C3_FlockExclusive ==
    /\ [](\A c1, c2 \in Ctx :
            (c1 # c2 /\ fl[c1].pc = "body" /\ fl[c2].pc = "body")
                => fl[c1].path # fl[c2].path)
    /\ \A c \in Ctx : Waiting(c) ~> ~Waiting(c)

C3_Witness ==
    /\ fl[2].pc = "body"
    /\ fl[2].waited
    /\ fl[1].pc = "idle"
    /\ fl[1].res \in Exits
    /\ flCalls = 2

\* C4: flock leaves no descriptor open: every open descriptor belongs to a
\* context that is inside flock, every lock is held by the descriptor of a
\* context in its body, and a failed open opens nothing.
C4_NoDescriptorLeft ==
    /\ \A fd \in openFds : \E c \in Ctx :
            fl[c].pc \in {"locking", "body"} /\ fl[c].fd = fd
    /\ \A p \in DOMAIN lock : lock[p] # NoFd =>
            \E c \in Ctx : fl[c].pc = "body" /\ fl[c].fd = lock[p] /\ fl[c].path = p
    /\ (\A c \in Ctx : fl[c].pc = "idle") => openFds = {}

C4_Witness ==
    /\ fl[1].pc = "idle" /\ fl[1].res = "OSError"
    /\ fl[2].pc = "idle" /\ fl[2].res = "FileNotFoundError"
    /\ openFds = {}

(***************************************************************************)
(* INVOKING_USER: uid, gid, invoked_as_root                                *)
(***************************************************************************)
MaxText == 2

\* os.getenv of a variable that is not set: None, which is no text.
Unset == <<"None">>
Digits == {"0", "1"}
Chars == Digits \cup {"x"}

\* The value of an environment variable: unset, or a text (the empty one too).
Texts == UNION {[1..n -> Chars] : n \in 0..MaxText}
EnvValues == Texts \cup {Unset}

RealIds == {0, 7}

DigitVal(ch) == IF ch = "1" THEN 1 ELSE 0

RECURSIVE DecVal(_)
DecVal(s) ==
    IF s = <<>> THEN 0
    ELSE 10 * DecVal(SubSeq(s, 1, Len(s) - 1)) + DigitVal(s[Len(s)])

\* int(x): an int is returned as it is; a text must be a non-empty run of
\* decimal digits (leading zeros allowed), else ValueError.
IntOf(x) ==
    IF x.t = "int" THEN [ok |-> TRUE, val |-> x.n]
    ELSE IF x.s # <<>> /\ \A i \in 1..Len(x.s) : x.s[i] \in Digits
         THEN [ok |-> TRUE, val |-> DecVal(x.s)]
         ELSE [ok |-> FALSE]

\* The truth value "or" tests: None and the empty text are false.
Truthy(v) == v # Unset /\ v # <<>>

Str(v) == [t |-> "str", s |-> v]
Num(n) == [t |-> "int", n |-> n]

\* os.getenv("SUDO_UID") or os.getenv("PKEXEC_UID") or os.getuid()
UidOperand_PkexecFirst(e, p) ==
    IF Truthy(e.PKEXEC_UID) THEN Str(e.PKEXEC_UID)
    ELSE IF Truthy(e.SUDO_UID) THEN Str(e.SUDO_UID)
    ELSE Num(p.uid)

UidOperand(e, p) ==
    IF Truthy(e.SUDO_UID) THEN Str(e.SUDO_UID)
    ELSE IF Truthy(e.PKEXEC_UID) THEN Str(e.PKEXEC_UID)
    ELSE Num(p.uid)

\* os.getenv("SUDO_GID") or os.getgid()
GidOperand(e, p) ==
    IF Truthy(e.SUDO_GID) THEN Str(e.SUDO_GID) ELSE Num(p.gid)

IdInit ==
    /\ idEnv \in [SUDO_UID : EnvValues, PKEXEC_UID : EnvValues, SUDO_GID : EnvValues]
    /\ proc \in [uid : RealIds, gid : RealIds]
    /\ cls = [status |-> "unloaded"]
    /\ clsLast = [op |-> "none"]

\* The class body (lines 81-83), run once when the module is imported.  A
\* ValueError of int() ends it: the class does not come to exist.
ClassBody ==
    /\ cls.status = "unloaded"
    /\ LET u == IntOf(UidOperand(idEnv, proc))
           g == IntOf(GidOperand(idEnv, proc))
       IN cls' = IF ~u.ok \/ ~g.ok
                 THEN [status |-> "ValueError"]
                 ELSE [status |-> "ok", uid |-> u.val, gid |-> g.val,
                       invoked_as_root |-> (u.val = 0)]
    /\ clsLast' = [op |-> "class"]
    /\ UNCHANGED <<idEnv, proc>>
    /\ UNCHANGED nonIdVars

\* is_running_user() (lines 91-93).
IsRunningUser ==
    /\ cls.status = "ok"
    /\ clsLast' = [op |-> "is_running_user", res |-> (cls.uid = proc.uid)]
    /\ UNCHANGED <<idEnv, proc, cls>>
    /\ UNCHANGED nonIdVars

IdNext ==
    \/ ClassBody
    \/ IsRunningUser

IdInitAll == IdInit /\ EnvIdle /\ CdIdle /\ UmIdle /\ FlIdle /\ UsrIdle

SpecId == IdInitAll /\ [][IdNext]_vars

IsNumber(v) == v # <<>> /\ v # Unset /\ \A i \in 1..Len(v) : v[i] \in Digits

\* C5: the uid is SUDO_UID, else PKEXEC_UID, else the real uid; the gid is
\* SUDO_GID, else the real gid; invoked_as_root is true exactly when the uid
\* is 0.
C5_IdentityPrecedence ==
    cls.status = "ok" =>
        /\ IsNumber(idEnv.SUDO_UID) => cls.uid = DecVal(idEnv.SUDO_UID)
        /\ (~Truthy(idEnv.SUDO_UID) /\ IsNumber(idEnv.PKEXEC_UID))
                => cls.uid = DecVal(idEnv.PKEXEC_UID)
        /\ (~Truthy(idEnv.SUDO_UID) /\ ~Truthy(idEnv.PKEXEC_UID))
                => cls.uid = proc.uid
        /\ IsNumber(idEnv.SUDO_GID) => cls.gid = DecVal(idEnv.SUDO_GID)
        /\ ~Truthy(idEnv.SUDO_GID) => cls.gid = proc.gid
        /\ (idEnv.SUDO_UID = <<"1", "0">> /\ idEnv.PKEXEC_UID = Unset) => cls.uid = 10
        /\ cls.invoked_as_root <=> (cls.uid = 0)

C5_Witness ==
    /\ cls.status = "ok"
    /\ idEnv.SUDO_UID = <<"1", "0">>
    /\ idEnv.PKEXEC_UID = <<"1">>
    /\ proc.uid = 0
    /\ cls.uid = 10
    /\ ~cls.invoked_as_root

\* C9: identity resolution has no error outcome: whatever SUDO_UID, PKEXEC_UID
\* and SUDO_GID hold, uid and gid resolve to integers.
C9_ResolutionNeverFails ==
    cls.status # "unloaded" => (cls.status = "ok" /\ cls.uid \in Int /\ cls.gid \in Int)

(***************************************************************************)
(* INVOKING_USER: name(), home(), init()                                   *)
(***************************************************************************)
MaxCalls == 4

UserName == "user"
UserHome == "/home/user"

\* name() (lines 95-98): functools.lru_cache keeps a value that was returned;
\* a call that raises leaves the cache as it was.
NameCall_NoCache(u, acct) ==
    IF acct
    THEN [u |-> [u EXCEPT !.name = UserName, !.lookups = @ + 1],
          res |-> UserName, hit |-> FALSE]
    ELSE [u |-> [u EXCEPT !.lookups = @ + 1], res |-> "KeyError", hit |-> FALSE]

NameCall(u, acct) ==
    IF u.name # None
    THEN [u |-> u, res |-> u.name, hit |-> TRUE]
    ELSE IF acct
    THEN [u |-> [u EXCEPT !.name = UserName, !.lookups = @ + 1],
          res |-> UserName, hit |-> FALSE]
    ELSE [u |-> [u EXCEPT !.lookups = @ + 1], res |-> "KeyError", hit |-> FALSE]

\* home() (lines 100-103): cached the same way; it calls name(), then expands
\* "~name", which fails when the database has no such user.
HomeCall(u, acct) ==
    IF u.home # None
    THEN [u |-> u, res |-> u.home, hit |-> TRUE]
    ELSE LET n == NameCall(u, acct)
         IN IF n.res = "KeyError"
            THEN [u |-> n.u, res |-> "KeyError", hit |-> FALSE]
            ELSE IF acct
            THEN [u |-> [n.u EXCEPT !.home = UserHome, !.expansions = @ + 1],
                  res |-> UserHome, hit |-> FALSE]
            ELSE [u |-> [n.u EXCEPT !.expansions = @ + 1],
                  res |-> "RuntimeError", hit |-> FALSE]

\* init() (lines 85-89): name(), then home(), then the log line.
InitCall(u, acct) ==
    LET n == NameCall(u, acct)
    IN IF n.res = "KeyError" THEN n ELSE HomeCall(n.u, acct)

UsrInit ==
    /\ usr = [name |-> None, home |-> None, lookups |-> 0, expansions |-> 0,
              calls |-> 0]
    /\ account \in BOOLEAN
    /\ usrLast = [op |-> "none"]

Name ==
    /\ usr.calls < MaxCalls
    /\ LET r == NameCall(usr, account)
       IN /\ usr' = [r.u EXCEPT !.calls = @ + 1]
          /\ usrLast' = [op |-> "name", res |-> r.res, hit |-> r.hit]
    /\ UNCHANGED account
    /\ UNCHANGED nonUsrVars

Home ==
    /\ usr.calls < MaxCalls
    /\ LET r == HomeCall(usr, account)
       IN /\ usr' = [r.u EXCEPT !.calls = @ + 1]
          /\ usrLast' = [op |-> "home", res |-> r.res, hit |-> r.hit]
    /\ UNCHANGED account
    /\ UNCHANGED nonUsrVars

InitUser ==
    /\ usr.calls < MaxCalls
    /\ LET r == InitCall(usr, account)
       IN /\ usr' = [r.u EXCEPT !.calls = @ + 1]
          /\ usrLast' = [op |-> "init", res |-> r.res, hit |-> r.hit]
    /\ UNCHANGED account
    /\ UNCHANGED nonUsrVars

\* The user database gains or loses the entry of the uid.
AccountChange ==
    /\ account' = ~account
    /\ usrLast' = [op |-> "database"]
    /\ UNCHANGED usr
    /\ UNCHANGED nonUsrVars

UsrNext ==
    \/ Name
    \/ Home
    \/ InitUser
    \/ AccountChange

UsrInitAll == UsrInit /\ EnvIdle /\ CdIdle /\ UmIdle /\ FlIdle /\ IdIdle

SpecUsr == UsrInitAll /\ [][UsrNext]_vars

\* C6 (as stated): over any calls of name(), home() and init() the database
\* lookup is made at most once and the home expansion at most once, also when
\* the lookup fails.
C6_AtMostOneLookup ==
    usr.lookups <= 1 /\ usr.expansions <= 1

\* C6 (amended): once name() has returned a name no further database lookup is
\* made, and once home() has returned a path no further expansion is made; a
\* lookup or expansion that fails is not remembered and is made again by the
\* next call.
C6_NoLookupAfterSuccess ==
    [][/\ usr.name # None => usr'.lookups = usr.lookups
       /\ usr.home # None => usr'.expansions = usr.expansions
       /\ (usr.name = None /\ usrLast'.op \in {"name", "home", "init"})
            => usr'.lookups = usr.lookups + 1]_vars

C6_Witness ==
    /\ usr.name # None
    /\ usr.lookups = 2
    /\ usrLast.op = "name"
    /\ usrLast.hit

====
